---- MODULE Spec2Model ----
(***************************************************************************)
(* Model of image_encryption.py (class ImageEncryptor) and of the encrypt  *)
(* command of cli.py.                                                      *)
(*                                                                         *)
(* Bytes are integers 0..255 and byte strings are sequences of them.  The  *)
(* file system is a function from the paths that exist to their contents.  *)
(* The AES block transformation of the cryptography package is abstracted  *)
(* by a keyed permutation of 16-byte blocks; the four chaining modes, the  *)
(* PKCS7 padder/unpadder and the length checks of the package are modelled *)
(* as the package computes them.                                           *)
(***************************************************************************)
EXTENDS Integers, Sequences, FiniteSets, TLC

\* ------------------------------------------------------------------ bounds
MaxLen == 17          \* longest plaintext placed in the input image file
NumIvs == 2           \* number of distinct values the random source may give
MaxCut == 2           \* an outside writer removes at most this many bytes

\* --------------------------------------------------------- program constants
BlockSize == 16       \* padding.PKCS7(128): 128 bits
IvSize == 16          \* secrets.token_bytes(16)
GenKeySize == 32      \* secrets.token_bytes(32)

\* -------------------------------------------------------------- byte strings
Byte == 0..255

Min(a, b) == IF a < b THEN a ELSE b

\* a ^ b on bytes, tabulated once
RECURSIVE XorBits(_, _)
XorBits(a, b) ==
  IF a = 0 THEN b
  ELSE IF b = 0 THEN a
  ELSE 2 * XorBits(a \div 2, b \div 2) + ((a + b) % 2)

XorTable == [a \in Byte |-> [b \in Byte |-> XorBits(a, b)]]

Xor(a, b) == XorTable[a][b]

\* bytes(a ^ b for a, b in zip(x, y)) on two strings, as long as the shorter
XorSeq(x, y) == [i \in 1..Min(Len(x), Len(y)) |-> Xor(x[i], y[i])]

\* Python slices data[:n] and data[n:]
Take(s, n) == SubSeq(s, 1, Min(n, Len(s)))
Drop(s, n) == SubSeq(s, Min(n, Len(s)) + 1, Len(s))

Fill(n, b) == [i \in 1..n |-> b]

\* ------------------------------------------------ algorithms.AES(self.key)
\* A keyed permutation of 16-byte blocks standing for the AES block cipher:
\* rotate the block by one byte and add a key- and position-dependent byte.
RECURSIVE SumTo(_, _)
SumTo(s, n) == IF n = 0 THEN 0 ELSE s[n] + SumTo(s, n - 1)

KeyByte(key) == (SumTo(key, Len(key)) + Len(key)) % 256

AES_encrypt(key, b) ==
  LET kb == KeyByte(key)
  IN [i \in 1..BlockSize |-> (b[(i % BlockSize) + 1] + kb + i) % 256]

AES_decrypt(key, c) ==
  LET kb == KeyByte(key)
  IN [j \in 1..BlockSize |->
        LET i == IF j = 1 THEN BlockSize ELSE j - 1
        IN (c[i] + 512 - kb - i) % 256]

\* ------------------------------------------------------------ modes.CBC
RECURSIVE CBC_encrypt(_, _, _)
CBC_encrypt(key, prev, data) ==
  IF Len(data) = 0 THEN <<>>
  ELSE LET c == AES_encrypt(key, XorSeq(Take(data, BlockSize), prev))
       IN c \o CBC_encrypt(key, c, Drop(data, BlockSize))

\* every block is combined with the IV instead of the preceding ciphertext block
RECURSIVE CBC_decrypt_unchained(_, _, _)
CBC_decrypt_unchained(key, prev, data) ==
  IF Len(data) = 0 THEN <<>>
  ELSE XorSeq(AES_decrypt(key, Take(data, BlockSize)), prev)
         \o CBC_decrypt_unchained(key, prev, Drop(data, BlockSize))

RECURSIVE CBC_decrypt(_, _, _)
CBC_decrypt(key, prev, data) ==
  IF Len(data) = 0 THEN <<>>
  ELSE LET c == Take(data, BlockSize)
       IN XorSeq(AES_decrypt(key, c), prev)
            \o CBC_decrypt(key, c, Drop(data, BlockSize))

\* ------------------------------------------------------------ modes.CFB
\* full-block (128-bit) feedback; the last segment may be short
RECURSIVE CFB_encrypt(_, _, _)
CFB_encrypt(key, prev, data) ==
  IF Len(data) = 0 THEN <<>>
  ELSE LET c == XorSeq(Take(data, BlockSize), AES_encrypt(key, prev))
       IN c \o CFB_encrypt(key, c, Drop(data, BlockSize))

RECURSIVE CFB_decrypt(_, _, _)
CFB_decrypt(key, prev, data) ==
  IF Len(data) = 0 THEN <<>>
  ELSE LET c == Take(data, BlockSize)
       IN XorSeq(c, AES_encrypt(key, prev))
            \o CFB_decrypt(key, c, Drop(data, BlockSize))

\* ------------------------------------------------------------ modes.OFB
RECURSIVE OFB_crypt(_, _, _)
OFB_crypt(key, prev, data) ==
  IF Len(data) = 0 THEN <<>>
  ELSE LET o == AES_encrypt(key, prev)
       IN XorSeq(Take(data, BlockSize), o)
            \o OFB_crypt(key, o, Drop(data, BlockSize))

\* ------------------------------------------------------------ modes.CTR
\* the 16-byte nonce is a big-endian 128-bit counter, incremented per block
RECURSIVE IncCounter(_)
IncCounter(b) ==
  IF Len(b) = 0 THEN <<>>
  ELSE IF b[Len(b)] = 255
       THEN Append(IncCounter(SubSeq(b, 1, Len(b) - 1)), 0)
       ELSE [b EXCEPT ![Len(b)] = @ + 1]

RECURSIVE CTR_crypt(_, _, _)
CTR_crypt(key, ctr, data) ==
  IF Len(data) = 0 THEN <<>>
  ELSE XorSeq(Take(data, BlockSize), AES_encrypt(key, ctr))
         \o CTR_crypt(key, IncCounter(ctr), Drop(data, BlockSize))

\* ----------------------------------------------- Cipher(algorithm, mode)
\* Cipher() validates the mode against the algorithm: the IV (the nonce for
\* CTR) must be exactly one block long, otherwise ValueError.
\* an IV shorter than a block is let through
IvSizeOk_atMost(iv) == Len(iv) <= BlockSize

IvSizeOk(iv) == Len(iv) = BlockSize

\* the cipher is run with an all-zero IV instead of the one generated
CipherEncrypt_fixedIv(mode, key, iv, data) ==
  CASE mode = "CBC" -> CBC_encrypt(key, Fill(BlockSize, 0), data)
    [] mode = "CFB" -> CFB_encrypt(key, Fill(BlockSize, 0), data)
    [] mode = "OFB" -> OFB_crypt(key, Fill(BlockSize, 0), data)
    [] mode = "CTR" -> CTR_crypt(key, Fill(BlockSize, 0), data)

\* encryptor.update(data) + encryptor.finalize(); CBC requires whole blocks
\* (always given here, the data being padded)
CipherEncrypt(mode, key, iv, data) ==
  CASE mode = "CBC" -> CBC_encrypt(key, iv, data)
    [] mode = "CFB" -> CFB_encrypt(key, iv, data)
    [] mode = "OFB" -> OFB_crypt(key, iv, data)
    [] mode = "CTR" -> CTR_crypt(key, iv, data)

\* decryptor.finalize() raises ValueError under CBC when the data is not a
\* multiple of the block length; the stream-like modes take any length
CipherLengthOk(mode, data) == mode # "CBC" \/ Len(data) % BlockSize = 0

CipherDecrypt(mode, key, iv, data) ==
  CASE mode = "CBC" -> CBC_decrypt(key, iv, data)
    [] mode = "CFB" -> CFB_decrypt(key, iv, data)
    [] mode = "OFB" -> OFB_crypt(key, iv, data)
    [] mode = "CTR" -> CTR_crypt(key, iv, data)

\* ------------------------------------------------------ padding.PKCS7(128)
PadLen(n) == BlockSize - (n % BlockSize)

\* no padding block is added to data that is already block-aligned
_pad_data_skipAligned(data) ==
  IF Len(data) % BlockSize = 0 THEN data
  ELSE data \o Fill(PadLen(Len(data)), PadLen(Len(data)))

_pad_data(data) == data \o Fill(PadLen(Len(data)), PadLen(Len(data)))

\* unpadder.update() hands out all complete blocks but the last one and
\* keeps the rest; finalize() demands that exactly one block was kept and
\* that its last byte n is in 1..16 with the last n bytes all equal to n
UnpadKept(data) ==
  LET finished == IF Len(data) \div BlockSize >= 1
                  THEN Len(data) \div BlockSize - 1 ELSE 0
  IN Drop(data, finished * BlockSize)

\* only the last byte is looked at
PaddingBytesOk_lastOnly(buf) ==
  LET n == buf[Len(buf)]
  IN n >= 1 /\ n <= BlockSize

PaddingBytesOk(buf) ==
  LET n == buf[Len(buf)]
  IN /\ n >= 1
     /\ n <= BlockSize
     /\ \A i \in 0..(BlockSize - 1) : i < n => buf[Len(buf) - i] = n

UnpadOk(data) ==
  /\ Len(UnpadKept(data)) = BlockSize
  /\ PaddingBytesOk(UnpadKept(data))

_unpad_data(data) == SubSeq(data, 1, Len(data) - data[Len(data)])

\* ------------------------------------------------------ class ImageEncryptor
MODES == {"CBC", "CFB", "OFB", "CTR"}

\* a range test in place of the membership test
KeyLenOk_range(key) == Len(key) >= 16 /\ Len(key) <= 32

KeyLenOk(key) == Len(key) \in {16, 24, 32}

ModeOk(mode) == mode \in MODES

NoEngine == [live |-> FALSE, key |-> <<>>, mode_name |-> ""]

\* __init__: the error raised ("" when none) and the object constructed
InitError(key, mode) ==
  IF ~KeyLenOk(key) THEN "ValueError: key length"
  ELSE IF ~ModeOk(mode) THEN "ValueError: mode"
  ELSE ""

InitEngine(key, mode) ==
  IF InitError(key, mode) = "" THEN [live |-> TRUE, key |-> key, mode_name |-> mode]
  ELSE NoEngine

\* the random source: secrets.token_bytes gives any value; NumIvs of them
\* are enumerated, the first being all 0xFF (a counter that wraps)
IvValue(k) == [i \in 1..IvSize |-> (255 + (k - 1) * (16 * i + 1)) % 256]

_generate_iv == {IvValue(k) : k \in 1..NumIvs}

GeneratedKeys == {Fill(GenKeySize, 7)}

\* the IV is written after the ciphertext
RecordOf_ivLast(iv, encrypted_data) == encrypted_data \o iv

\* f.write(iv + encrypted_data)
RecordOf(iv, encrypted_data) == iv \o encrypted_data

\* if self.mode_name != 'CTR': pad on encryption, unpad on decryption
RequiresPadding(mode) == mode # "CTR"

\* ------------------------------------------------------------------- state
VARIABLES
  fs,        \* the file system: existing path |-> contents
  engine,    \* the ImageEncryptor produced by the latest construction
  last,      \* the latest call: its name, the error raised, what it handled
  encLog,    \* history: the latest two encrypt_image calls that drew an IV
  cli        \* a run of cli.py main(): position, arguments, locals, output

vars == <<fs, engine, last, encLog, cli>>

\* paths the calls are given; nothing exists under "nodir", so opening
\* "nodir/out" for writing raises FileNotFoundError, as does reading "gone"
ImagePaths == {"img.png", "gone"}
EncPaths == {"img.enc", "nodir/out"}
DecPaths == {"out.png", "nodir/out"}
KeyPaths == {"key.bin", "nodir/out"}

Writable(path) == path # "nodir/out"

Exists(f, path) == path \in DOMAIN f

\* the last byte of the data does not reach the file
WriteFile_short(f, path, data) ==
  [q \in DOMAIN f \cup {path} |->
     IF q = path THEN SubSeq(data, 1, Len(data) - 1) ELSE f[q]]

\* with open(path, 'wb') as f: f.write(data)
WriteFile(f, path, data) ==
  [q \in DOMAIN f \cup {path} |-> IF q = path THEN data ELSE f[q]]

\* the image files the runs start from: n bytes counting down to 1
Plain(n) == [i \in 1..n |-> (n - i + 1) % 256]

\* key arguments handed to the constructor, of valid and invalid lengths
KeyArgs == {Fill(n, 3) : n \in {0, 15, 16, 17, 23, 24, 25, 31, 32, 33}}

ModeArgs == MODES \cup {"ECB", ""}

\* a call: its name, the error raised ("" when none), the path read and the
\* path to write, the mode tag given to the constructor, the bytes read (for
\* the constructor: the optional key), the IV drawn or split off, the
\* cipher's output, the bytes written, the bytes returned
NoCall == [op |-> "", err |-> "", src |-> "", dst |-> "", mode |-> "",
           input |-> <<>>, iv |-> <<>>, mid |-> <<>>, out |-> <<>>, ret |-> <<>>]

NoCli == [pc |-> "idle", input |-> "", output |-> "", mode |-> "", key_arg |-> "",
          save_key |-> "", key |-> <<>>, wrote |-> FALSE, out_iv |-> <<>>,
          out_key |-> <<>>, out_saved |-> "", stderr |-> ""]

Init ==
  /\ \E n \in 0..MaxLen : fs = [q \in {"img.png"} |-> Plain(n)]
  /\ engine = NoEngine
  /\ last = NoCall
  /\ encLog = <<>>
  /\ cli = NoCli

\* ImageEncryptor(key=key, mode=mode); key None draws a random 32-byte key
Construct(keyOpt, mode) ==
  /\ ~engine.live
  /\ \E gen \in GeneratedKeys :
       LET key == IF keyOpt = <<>> THEN gen ELSE keyOpt[1]
       IN /\ engine' = InitEngine(key, mode)
          /\ last' = [NoCall EXCEPT !.op = "__init__", !.err = InitError(key, mode),
                                    !.mode = mode, !.input = keyOpt]
  /\ UNCHANGED fs

encrypt_image(image_path, output_path) ==
  /\ engine.live
  /\ LET call == [NoCall EXCEPT !.op = "encrypt_image", !.src = image_path,
                                !.dst = output_path]
     IN IF ~Exists(fs, image_path)
        THEN /\ last' = [call EXCEPT !.err = "FileNotFoundError"]
             /\ UNCHANGED fs
        ELSE \E iv \in _generate_iv :
          LET image_data == fs[image_path]
              padded == IF RequiresPadding(engine.mode_name)
                        THEN _pad_data(image_data) ELSE image_data
              encrypted_data == CipherEncrypt(engine.mode_name, engine.key, iv, padded)
              ran == [call EXCEPT !.input = image_data, !.iv = iv,
                                  !.mid = encrypted_data]
          IN IF ~Writable(output_path)
             THEN /\ last' = [ran EXCEPT !.err = "FileNotFoundError"]
                  /\ UNCHANGED fs
             ELSE /\ fs' = WriteFile(fs, output_path, RecordOf(iv, encrypted_data))
                  /\ last' = [ran EXCEPT !.out = RecordOf(iv, encrypted_data),
                                         !.ret = iv]
  /\ UNCHANGED engine

decrypt_image(encrypted_path, output_path) ==
  /\ engine.live
  /\ LET call == [NoCall EXCEPT !.op = "decrypt_image", !.src = encrypted_path,
                                !.dst = output_path]
     IN IF ~Exists(fs, encrypted_path)
        THEN /\ last' = [call EXCEPT !.err = "FileNotFoundError"]
             /\ UNCHANGED fs
        ELSE
          LET encrypted_data == fs[encrypted_path]
              iv == Take(encrypted_data, 16)
              ciphertext == Drop(encrypted_data, 16)
              decrypted_data == CipherDecrypt(engine.mode_name, engine.key, iv, ciphertext)
              output == IF RequiresPadding(engine.mode_name)
                        THEN _unpad_data(decrypted_data) ELSE decrypted_data
              read == [call EXCEPT !.input = encrypted_data, !.iv = iv]
              ran == [read EXCEPT !.mid = decrypted_data]
          IN IF ~IvSizeOk(iv)
             THEN /\ last' = [read EXCEPT !.err = "ValueError: IV size"]
                  /\ UNCHANGED fs
             ELSE IF ~CipherLengthOk(engine.mode_name, ciphertext)
             THEN /\ last' = [read EXCEPT !.err = "ValueError: block length"]
                  /\ UNCHANGED fs
             ELSE IF RequiresPadding(engine.mode_name) /\ ~UnpadOk(decrypted_data)
             THEN /\ last' = [ran EXCEPT !.err = "ValueError: padding"]
                  /\ UNCHANGED fs
             ELSE IF ~Writable(output_path)
             THEN /\ last' = [ran EXCEPT !.err = "FileNotFoundError"]
                  /\ UNCHANGED fs
             ELSE /\ fs' = WriteFile(fs, output_path, output)
                  /\ last' = [ran EXCEPT !.out = output]
  /\ UNCHANGED engine

save_key(key_path) ==
  /\ engine.live
  /\ LET call == [NoCall EXCEPT !.op = "save_key", !.dst = key_path]
     IN IF ~Writable(key_path)
        THEN /\ last' = [call EXCEPT !.err = "FileNotFoundError"]
             /\ UNCHANGED fs
        ELSE /\ fs' = WriteFile(fs, key_path, engine.key)
             /\ last' = [call EXCEPT !.out = engine.key]
  /\ UNCHANGED engine

\* f.read(16): at most 16 bytes are read
KeyFileBytes_first16(data) == Take(data, 16)

\* the bytes load_key returns for a file's contents: f.read()
KeyFileBytes(data) == data

load_key(key_path) ==
  /\ LET call == [NoCall EXCEPT !.op = "load_key", !.src = key_path]
     IN IF ~Exists(fs, key_path)
        THEN last' = [call EXCEPT !.err = "FileNotFoundError"]
        ELSE last' = [call EXCEPT !.input = fs[key_path],
                                  !.ret = KeyFileBytes(fs[key_path])]
  /\ UNCHANGED <<fs, engine>>

\* The encrypted file is an ordinary file: before it is decrypted another
\* program may cut bytes off its end or change its last byte.
CutSizes == (1..MaxCut) \cup {BlockSize}

Fresh == /\ last.op = "encrypt_image"
         /\ last.err = ""
         /\ Exists(fs, last.dst)
         /\ fs[last.dst] = last.out

Truncate(k) ==
  /\ Fresh
  /\ Len(fs[last.dst]) >= k
  /\ fs' = WriteFile(fs, last.dst, Take(fs[last.dst], Len(fs[last.dst]) - k))
  /\ UNCHANGED <<engine, last>>

FlipLast(data) == [data EXCEPT ![Len(data)] = IF @ % 2 = 0 THEN @ + 1 ELSE @ - 1]

Tamper ==
  /\ Fresh
  /\ fs' = WriteFile(fs, last.dst, FlipLast(fs[last.dst]))
  /\ UNCHANGED <<engine, last>>

\* ------------------------------------------------ encryption and decryption
Next ==
  \/ /\ \E k \in {<<>>} \cup {<<a>> : a \in KeyArgs}, m \in ModeArgs : Construct(k, m)
     /\ UNCHANGED <<encLog, cli>>
  \/ /\ \E ip \in ImagePaths, op \in EncPaths : encrypt_image(ip, op)
     /\ UNCHANGED <<encLog, cli>>
  \/ /\ \E ep \in {"img.enc", "img.png", "gone"}, op \in DecPaths : decrypt_image(ep, op)
     /\ UNCHANGED <<encLog, cli>>
  \/ /\ \E k \in CutSizes : Truncate(k)
     /\ UNCHANGED <<encLog, cli>>
  \/ /\ Tamper
     /\ UNCHANGED <<encLog, cli>>

Spec == Init /\ [][Next]_vars

\* ------------------------------------------------------------ key handling
\* the constructor is also given the bytes a preceding load_key returned
NextKey ==
  \/ /\ \E k \in {<<>>} \cup {<<a>> : a \in KeyArgs}, m \in ModeArgs : Construct(k, m)
     /\ UNCHANGED <<encLog, cli>>
  \/ /\ last.op = "load_key"
     /\ last.err = ""
     /\ \E m \in ModeArgs : Construct(<<last.ret>>, m)
     /\ UNCHANGED <<encLog, cli>>
  \/ /\ \E kp \in KeyPaths : save_key(kp)
     /\ UNCHANGED <<encLog, cli>>
  \/ /\ \E kp \in KeyPaths \cup ImagePaths : load_key(kp)
     /\ UNCHANGED <<encLog, cli>>

SpecKey == Init /\ [][NextKey]_vars

\* ------------------------------------------------- successive encryptions
\* encLog keeps the latest two encrypt_image calls that reached _generate_iv
Logged(log, call) == IF call.iv # <<>> THEN <<call>> \o Take(log, 1) ELSE log

NextIv ==
  \/ /\ \E k \in {<<>>} \cup {<<a>> : a \in KeyArgs}, m \in ModeArgs : Construct(k, m)
     /\ UNCHANGED <<encLog, cli>>
  \/ /\ \E ip \in ImagePaths, op \in EncPaths : encrypt_image(ip, op)
     /\ encLog' = Logged(encLog, last')
     /\ UNCHANGED cli

SpecIv == Init /\ [][NextIv]_vars

\* ---------------------------------------------------- cli.py: main(), encrypt
\* key.hex() / iv.hex(): two hexadecimal digits per byte, high digit first
Hex(bytes) ==
  [i \in 1..(2 * Len(bytes)) |->
     IF i % 2 = 1 THEN bytes[(i + 1) \div 2] \div 16 ELSE bytes[i \div 2] % 16]

CliKeyFiles == {Fill(n, 3) : n \in {0, 16, 17, 32}}

InitCli ==
  /\ \E n \in {0, MaxLen}, k \in CliKeyFiles :
        fs = [q \in {"img.png", "key.bin"} |-> IF q = "img.png" THEN Plain(n) ELSE k]
  /\ engine = NoEngine
  /\ last = NoCall
  /\ encLog = <<>>
  /\ cli = NoCli

\* except FileNotFoundError / ValueError / Exception: print the error, exit(1)
CliFailed(c, err) == [c EXCEPT !.pc = "exit1", !.stderr = err]

\* args = parser.parse_args(); "" stands for an option that was not given
CliStart(input, output, mode, key_arg, save_key_arg) ==
  /\ cli.pc = "idle"
  /\ cli' = [cli EXCEPT !.pc = "load", !.input = input, !.output = output,
                        !.mode = mode, !.key_arg = key_arg, !.save_key = save_key_arg]
  /\ UNCHANGED <<fs, engine, last>>

\* lines 62-65: key = ImageEncryptor.load_key(args.key) or None
CliLoadKey ==
  /\ cli.pc = "load"
  /\ IF cli.key_arg # ""
     THEN /\ load_key(cli.key_arg)
          /\ cli' = IF last'.err # "" THEN CliFailed(cli, last'.err)
                    ELSE [cli EXCEPT !.pc = "construct", !.key = <<last'.ret>>]
     ELSE /\ cli' = [cli EXCEPT !.pc = "construct", !.key = <<>>]
          /\ UNCHANGED <<fs, engine, last>>

\* line 68: encryptor = ImageEncryptor(key=key, mode=args.mode)
CliConstruct ==
  /\ cli.pc = "construct"
  /\ Construct(cli.key, cli.mode)
  /\ cli' = IF last'.err # "" THEN CliFailed(cli, last'.err)
            ELSE [cli EXCEPT !.pc = "encrypt"]

\* line 71: iv = encryptor.encrypt_image(args.input, args.output)
CliEncrypt ==
  /\ cli.pc = "encrypt"
  /\ encrypt_image(cli.input, cli.output)
  /\ cli' = IF last'.err # "" THEN CliFailed(cli, last'.err)
            ELSE [cli EXCEPT !.pc = "report", !.wrote = TRUE]

\* lines 73-77: the success report, with the IV in hex
CliReport ==
  /\ cli.pc = "report"
  /\ cli' = [cli EXCEPT !.pc = "keep", !.out_iv = Hex(last.ret)]
  /\ UNCHANGED <<fs, engine, last>>

\* lines 80-85: save the key if --save-key was given, else print it in hex
CliKeepKey ==
  /\ cli.pc = "keep"
  /\ IF cli.save_key # ""
     THEN /\ save_key(cli.save_key)
          /\ cli' = IF last'.err # "" THEN CliFailed(cli, last'.err)
                    ELSE [cli EXCEPT !.pc = "done", !.out_saved = cli.save_key]
     ELSE /\ cli' = [cli EXCEPT !.pc = "done", !.out_key = Hex(engine.key)]
          /\ UNCHANGED <<fs, engine, last>>

NextCli ==
  \/ /\ \E ip \in ImagePaths, op \in EncPaths, m \in MODES,
           ka \in {"", "key.bin", "gone"}, sk \in {"", "new.key", "nodir/out"} :
           CliStart(ip, op, m, ka, sk)
     /\ UNCHANGED encLog
  \/ CliLoadKey /\ UNCHANGED encLog
  \/ CliConstruct /\ UNCHANGED encLog
  \/ CliEncrypt /\ UNCHANGED encLog
  \/ CliReport /\ UNCHANGED encLog
  \/ CliKeepKey /\ UNCHANGED encLog

SpecCli == InitCli /\ [][NextCli]_vars

\* ------------------------------------------------------------------ claims

\* C1: round trip. decrypt_image run by the same engine on the record that
\* encrypt_image has just written succeeds and writes exactly the plaintext
\* that was encrypted, for every length, key and mode.
RoundTrip ==
  [][(/\ Fresh
      /\ last'.op = "decrypt_image"
      /\ last'.src = last.dst
      /\ Writable(last'.dst))
     => (/\ last'.err = ""
         /\ last'.out = last.input
         /\ fs'[last'.dst] = last.input)]_vars

RoundTripDone ==
  /\ last.op = "decrypt_image"
  /\ last.err = ""
  /\ last.src = "img.enc"
  /\ engine.mode_name = "CBC"
  /\ Len(engine.key) = 24
  /\ Len(last.out) = BlockSize
  /\ last.out = fs["img.png"]
  /\ last.input = RecordOf(last.iv, CBC_encrypt(engine.key, last.iv, _pad_data(last.out)))

\* C2: construction succeeds exactly when the key has 16, 24 or 32 bytes and
\* the mode is CBC, CFB, OFB or CTR; a bad key length raises the key-length
\* error, a bad mode (with a good key) the mode error, and then there is no
\* engine; without a key a 32-byte key is generated.
ConstructionValidated ==
  last.op = "__init__" =>
    LET supplied == last.input # <<>>
        lenOk == IF supplied THEN Len(last.input[1]) \in {16, 24, 32} ELSE TRUE
        modeOk == last.mode \in {"CBC", "CFB", "OFB", "CTR"}
    IN /\ (last.err = "") <=> (lenOk /\ modeOk)
       /\ ~lenOk => last.err = "ValueError: key length"
       /\ (lenOk /\ ~modeOk) => last.err = "ValueError: mode"
       /\ last.err # "" => engine = NoEngine
       /\ last.err = "" =>
            /\ engine.live
            /\ engine.mode_name = last.mode
            /\ supplied => engine.key = last.input[1]
            /\ ~supplied => Len(engine.key) = 32

KeyRejected ==
  /\ last.op = "__init__"
  /\ last.input # <<>>
  /\ Len(last.input[1]) = 17
  /\ last.mode = "CBC"
  /\ last.err = "ValueError: key length"
  /\ ~engine.live

\* C3: the record encrypt_image writes has 16 + len(p) + n bytes under CBC,
\* CFB and OFB, n = 16 - (len(p) mod 16), and 16 + len(p) bytes under CTR.
RecordLength ==
  (last.op = "encrypt_image" /\ last.err = "") =>
    LET p == Len(last.input)
        n == 16 - (p % 16)
    IN IF engine.mode_name \in {"CBC", "CFB", "OFB"}
       THEN n \in 1..16 /\ Len(last.out) = 16 + p + n
       ELSE engine.mode_name = "CTR" /\ Len(last.out) = 16 + p

AlignedPlaintextPadded ==
  /\ last.op = "encrypt_image"
  /\ last.err = ""
  /\ engine.mode_name = "CBC"
  /\ Len(last.input) = 16
  /\ Len(last.out) = 48

\* C4: the record written is the 16-byte IV of the call followed by the
\* ciphertext and nothing else; that IV is the value returned, and it is the
\* one the cipher was run with (deciphering with it gives the plaintext back).
RecordFraming ==
  (last.op = "encrypt_image" /\ last.err = "") =>
    /\ Len(last.out) >= 16
    /\ Len(last.iv) = 16
    /\ SubSeq(last.out, 1, 16) = last.iv
    /\ last.ret = last.iv
    /\ SubSeq(last.out, 17, Len(last.out)) = last.mid
    /\ SubSeq(CipherDecrypt(engine.mode_name, engine.key, last.ret,
                            SubSeq(last.out, 17, Len(last.out))),
              1, Len(last.input)) = last.input

BareIvRecord ==
  /\ last.op = "encrypt_image"
  /\ last.err = ""
  /\ engine.mode_name = "CTR"
  /\ last.input = <<>>
  /\ Len(last.out) = 16
  /\ last.out = last.ret

\* C5: decrypt_image of an existing record shorter than 16 bytes raises the
\* IV-size error with no cipher output and no file written; a record of 16
\* bytes or more never raises it.
ShortRecordRejected ==
  [][(/\ last'.op = "decrypt_image"
      /\ last' # last
      /\ Exists(fs, last'.src))
     => IF Len(fs[last'.src]) < 16
        THEN /\ last'.err = "ValueError: IV size"
             /\ last'.mid = <<>>
             /\ last'.out = <<>>
             /\ fs' = fs
        ELSE last'.err # "ValueError: IV size"]_vars

ShortRecordSeen ==
  /\ last.op = "decrypt_image"
  /\ last.err = "ValueError: IV size"
  /\ Len(last.input) = 15
  /\ engine.mode_name = "CBC"
  /\ ~Exists(fs, last.dst)

\* C6 as stated: under CBC, CFB and OFB decrypt_image fails with the padding
\* error exactly when the decrypted data is empty or its last byte n is not
\* in 1..16 or its last n bytes are not all n, and otherwise writes the data
\* without its last n bytes; under CTR the data is written as decrypted.
PaddingCheckedAsStated ==
  (last.op = "decrypt_image" /\ last.err \in {"", "ValueError: padding"}) =>
    LET d == last.mid
        n == d[Len(d)]
        bad == \/ Len(d) = 0
               \/ n < 1
               \/ n > 16
               \/ n > Len(d)
               \/ \E i \in 0..(n - 1) : d[Len(d) - i] # n
    IN IF engine.mode_name = "CTR" THEN last.err = "" /\ last.out = d
       ELSE IF bad THEN last.err = "ValueError: padding"
       ELSE last.err = "" /\ last.out = SubSeq(d, 1, Len(d) - n)

\* C6 amended: the padding error is also raised when the length of the
\* decrypted data is not a multiple of 16.
PaddingChecked ==
  (last.op = "decrypt_image" /\ last.err \in {"", "ValueError: padding"}) =>
    LET d == last.mid
        n == d[Len(d)]
        bad == \/ Len(d) = 0
               \/ Len(d) % 16 # 0
               \/ n < 1
               \/ n > 16
               \/ \E i \in 0..(n - 1) : d[Len(d) - i] # n
    IN IF engine.mode_name = "CTR" THEN last.err = "" /\ last.out = d
       ELSE IF bad THEN last.err = "ValueError: padding"
       ELSE last.err = "" /\ last.out = SubSeq(d, 1, Len(d) - n)

UnalignedDataRejected ==
  /\ last.op = "decrypt_image"
  /\ last.err = "ValueError: padding"
  /\ engine.mode_name = "OFB"
  /\ Len(last.mid) = 15
  /\ last.mid[15] = 1

\* C7: a call of encrypt_image or decrypt_image leaves the engine as it was;
\* when it raises, the file system is as it was; when it does not, exactly
\* the output path has changed and holds the complete output.
Atomic ==
  [][(/\ last' # last
      /\ last'.op \in {"encrypt_image", "decrypt_image"})
     => /\ engine' = engine
        /\ IF last'.err # "" THEN fs' = fs
           ELSE /\ DOMAIN fs' = DOMAIN fs \cup {last'.dst}
                /\ \A q \in DOMAIN fs \ {last'.dst} : fs'[q] = fs[q]
                /\ fs'[last'.dst] = last'.out
                /\ last'.out = IF last'.op = "encrypt_image"
                               THEN last'.iv \o last'.mid
                               ELSE IF engine.mode_name = "CTR" THEN last'.mid
                               ELSE SubSeq(last'.mid, 1,
                                      Len(last'.mid) - last'.mid[Len(last'.mid)])]_vars

FailedDecryptWroteNothing ==
  /\ last.op = "decrypt_image"
  /\ last.err = "ValueError: padding"
  /\ last.dst = "out.png"
  /\ ~Exists(fs, "out.png")

\* C8 as stated: load_key of an existing file whose length is not 16, 24 or
\* 32 raises the key-length error.
KeyLoadValidates ==
  (last.op = "load_key" /\ Exists(fs, last.src) /\ Len(fs[last.src]) \notin {16, 24, 32})
    => last.err = "ValueError: key length"

\* C8 amended: load_key returns the whole contents of an existing file
\* whatever their length and raises FileNotFoundError for a missing one;
\* loading the file save_key wrote returns the engine's key; the length is
\* validated by the constructor, which rejects a key of any other length.
KeyLoadReturnsFile ==
  /\ last.op = "load_key" =>
       IF Exists(fs, last.src)
       THEN last.err = "" /\ last.ret = fs[last.src]
       ELSE last.err = "FileNotFoundError" /\ last.ret = <<>>
  /\ (last.op = "load_key" /\ last.src = "key.bin" /\ last.err = "")
       => engine.live /\ last.ret = engine.key
  /\ (last.op = "__init__" /\ last.input # <<>>
        /\ Len(last.input[1]) \notin {16, 24, 32})
       => last.err = "ValueError: key length" /\ ~engine.live

SavedKeyLoaded ==
  /\ last.op = "load_key"
  /\ last.src = "key.bin"
  /\ last.err = ""
  /\ Len(last.ret) = 24
  /\ last.ret = engine.key

\* C9 as stated: two successive encrypt_image calls of one engine never draw
\* the same IV and never produce the same ciphertext.
IvNeverReused ==
  Len(encLog) = 2 =>
    /\ encLog[1].iv # encLog[2].iv
    /\ encLog[1].mid # encLog[2].mid

\* C9 amended: each call draws a 16-byte IV of its own; equal draws are not
\* excluded and give equal ciphertexts; when the two IVs differ the records
\* differ, and so do the ciphertexts under CBC, CFB and OFB, and under CTR
\* for a plaintext of at least one block.
IvDrawnPerCall ==
  /\ \A i \in 1..Len(encLog) : Len(encLog[i].iv) = 16
  /\ Len(encLog) = 2 =>
       LET a == encLog[1]
           b == encLog[2]
       IN /\ a.input = b.input
          /\ a.iv = b.iv => a.mid = b.mid
          /\ a.iv # b.iv =>
               /\ (a.err = "" /\ b.err = "") => a.out # b.out
               /\ (engine.mode_name # "CTR" \/ Len(a.input) >= 16) => a.mid # b.mid

TwoIvsDrawn ==
  /\ Len(encLog) = 2
  /\ encLog[1].iv # encLog[2].iv
  /\ encLog[1].err = ""
  /\ encLog[2].err = ""
  /\ engine.mode_name = "CBC"

\* C10: when a run of the encrypt command has ended and has written the
\* encrypted output, the key was loaded from the key file, or is in the
\* --save-key file, or was printed in hex.
KeyRetained ==
  (cli.pc \in {"done", "exit1"} /\ cli.wrote) =>
    \/ cli.key_arg # ""
    \/ cli.save_key # "" /\ Exists(fs, cli.save_key) /\ fs[cli.save_key] = engine.key
    \/ cli.out_key = Hex(engine.key)

====
